---- MODULE Spec2Model ----
(***************************************************************************)
(* A model of bocoel's bounded index contract (Index.search / in_range),   *)
(* of the Ax service optimizer's step loop (AxServiceOptimizer) and of its *)
(* trial budget (_terminate_step).                                         *)
(*                                                                         *)
(* Arrays are records [shape, data]: shape is numpy's shape tuple and data *)
(* the flattened contents, so ndim = Len(shape).  Coordinates are small    *)
(* integers; rows of the embedding matrix are numbered from 1.             *)
(***************************************************************************)
EXTENDS Integers, Sequences, FiniteSets, TLC

VARIABLES
    dims,        \* Index.dims
    bounds,      \* Index.bounds: [dims, 2], <<lower, upper>> per dimension
    embeddings,  \* Index.embeddings: sequence of rows
    lastOp,      \* the last public Index call: its arguments and its outcome
    steps,       \* num_trials of the generation steps given to __init__
    remaining,   \* AxServiceOptimizer._remaining_steps (its count)
    axTrials,    \* the trial ledger of the external strategy (AxClient)
    asked,       \* get_next_trial calls made on the external strategy
    calls,       \* number of step() calls made on the optimizer so far
    lastStep,    \* the last step() call: its outcome and its event log
    failed,      \* some step() call so far has raised
    bsteps,      \* argument of a stand-alone _terminate_step call
    bresult,     \* <<>> before that call returns, <<budget>> after
    fitted,      \* the generation strategy holds a fitted model
    rendered,    \* the last render() call: its arguments and its outcome
    storage,     \* the items of the storage given to encode_storage
    batch,       \* Embedder.batch
    encoded      \* the last encode_storage() call: its calls and its outcome

vars == <<dims, bounds, embeddings, lastOp, steps, remaining, axTrials,
          asked, calls,
          lastStep, failed, bsteps, bresult, fitted, rendered, storage,
          batch, encoded>>

indexVars == <<dims, bounds, embeddings, lastOp>>
optimVars == <<steps, remaining, axTrials, asked, calls, lastStep, failed>>
budgetVars == <<bsteps, bresult>>
renderVars == <<fitted, rendered>>
embedVars == <<storage, batch, encoded>>

----------------------------------------------------------------------------
(* Bounds of the model *)

MaxDims == 2     \* largest Index.dims
MaxCoord == 3    \* coordinates range over 0..MaxCoord
MaxK == 2        \* k ranges over -1..MaxK
MaxRepeats == 2  \* in_range calls made in a row with one query
MaxSteps == 2    \* longest generation schedule given to the optimizer
MaxTrials == 2   \* largest num_trials of one generation step
MaxCalls == 4    \* step() calls made on one optimizer
MaxItems == 4    \* largest storage given to encode_storage
MaxBatch == 3    \* largest Embedder.batch

Coord == 0..MaxCoord
KSet == -1..MaxK
ScoreVals == {0, 1}

SeqsUpTo(S, n) == UNION {[1..m -> S] : m \in 0..n}

Min(a, b) == IF a <= b THEN a ELSE b

----------------------------------------------------------------------------
(* The bounded index: src/bocoel/corpora/indices/interfaces/indices.py *)

Vector(data) == [shape |-> <<Len(data)>>, data |-> data]

\* The arrays callers pass: every vector of length dims over Coord, and, over
\* a coordinate below the bounds and one within them, the vectors of the
\* other lengths up to dims + 1, the 0-D arrays and the [1, dims] matrices
Queries ==
    LET Two == {0, MaxCoord - 1}
    IN  {Vector(d) : d \in [1..dims -> Coord]}
        \cup {Vector(d) : d \in SeqsUpTo(Two, dims + 1)}
        \cup {[shape |-> <<>>, data |-> <<c>>] : c \in Two}
        \cup {[shape |-> <<1, dims>>, data |-> d] : d \in [1..dims -> Two]}

ndim(query) == Len(query.shape)

lower == [i \in 1..dims |-> bounds[i][1]]

upper == [i \in 1..dims |-> bounds[i][2]]

\* numpy can broadcast a 1-D query against the [dims] bound vectors
broadcastable(query) ==
    Len(query.data) = dims \/ Len(query.data) = 1 \/ dims = 1

\* mutant: only the lower bound is checked
in_range_lower_only(query) ==
    \A i \in 1..Len(query.data) : query.data[i] >= lower[i]

\* mutant: the bounds are exclusive
in_range_strict(query) ==
    \A i \in 1..Len(query.data) :
        query.data[i] > lower[i] /\ query.data[i] < upper[i]

\* Index.in_range, with numpy's broadcasting of query against the bounds
in_range(query) ==
    LET n == Len(query.data)
        m == IF n = 1 THEN dims ELSE n
        q(i) == IF n = 1 THEN query.data[1] ELSE query.data[i]
        lo(i) == IF dims = 1 THEN lower[1] ELSE lower[i]
        hi(i) == IF dims = 1 THEN upper[1] ELSE upper[i]
    IN  (\A i \in 1..m : q(i) >= lo(i)) /\ (\A i \in 1..m : q(i) <= hi(i))

\* squared Euclidean distance of the query to row i
dist(query, i) ==
    LET d(j) == query.data[j] - embeddings[i][j]
        RECURSIVE acc(_)
        acc(j) == IF j = 0 THEN 0 ELSE acc(j - 1) + d(j) * d(j)
    IN  acc(dims)

\* the variant's nearest-neighbour routine: the k closest rows, ties broken
\* by ascending row index
_search(query, k) ==
    LET n == Len(embeddings)
        before(j, i) == \/ dist(query, j) < dist(query, i)
                        \/ dist(query, j) = dist(query, i) /\ j < i
        rank(i) == Cardinality({j \in 1..n : before(j, i)}) + 1
        nth(p) == CHOOSE i \in 1..n : rank(i) = p
        m == IF k < 0 THEN 0 ELSE Min(k, n)
    IN  [indices |-> [p \in 1..m |-> nth(p)],
         distances |-> [p \in 1..m |-> dist(query, nth(p))]]

NoQuery == [shape |-> <<>>, data |-> <<>>]

NoResult == [query |-> NoQuery, vectors |-> <<>>, distances |-> <<>>,
             indices |-> <<>>]

\* a search call that raised ValueError at the named check
Raised(check) == [error |-> check, searched |-> <<>>, result |-> NoResult]

\* mutant: _search is called with its default k
Found_default_k(query, k) ==
    LET result == _search(query, 1)
        vectors == [p \in 1..Len(result.indices) |->
                        embeddings[result.indices[p]]]
    IN  [error |-> "none",
         searched |-> <<[query |-> query, k |-> k]>>,
         result |-> [query |-> query, vectors |-> vectors,
                     distances |-> result.distances,
                     indices |-> result.indices]]

\* mutant: the first rows of the matrix are returned as the matched vectors
Found_first_rows(query, k) ==
    LET result == _search(query, k)
        vectors == [p \in 1..Len(result.indices) |-> embeddings[p]]
    IN  [error |-> "none",
         searched |-> <<[query |-> query, k |-> k]>>,
         result |-> [query |-> query, vectors |-> vectors,
                     distances |-> result.distances,
                     indices |-> result.indices]]

\* lines 37-45: delegate to _search and gather the matched rows; searched
\* lists the _search invocations made during the call
Found(query, k) ==
    LET result == _search(query, k)
        vectors == [p \in 1..Len(result.indices) |->
                        embeddings[result.indices[p]]]
    IN  [error |-> "none",
         searched |-> <<[query |-> query, k |-> k]>>,
         result |-> [query |-> query, vectors |-> vectors,
                     distances |-> result.distances,
                     indices |-> result.indices]]

\* mutant: k is checked before the bounds
search_k_first(query, k) ==
    IF ndim(query) # 1 THEN Raised("shape")
    ELSE IF query.shape[1] # dims THEN Raised("dimension")
    ELSE IF k < 1 THEN Raised("k")
    ELSE IF ~in_range(query) THEN Raised("bounds")
    ELSE Found(query, k)

\* mutant: k is not checked
search_no_k_check(query, k) ==
    IF ndim(query) # 1 THEN Raised("shape")
    ELSE IF query.shape[1] # dims THEN Raised("dimension")
    ELSE IF ~in_range(query) THEN Raised("bounds")
    ELSE Found(query, k)

\* mutant: _search is called before k is checked
search_then_check_k(query, k) ==
    IF ndim(query) # 1 THEN Raised("shape")
    ELSE IF query.shape[1] # dims THEN Raised("dimension")
    ELSE IF ~in_range(query) THEN Raised("bounds")
    ELSE IF k < 1
    THEN [Raised("k") EXCEPT !.searched = Found(query, k).searched]
    ELSE Found(query, k)

\* Index.search: the outcome of one call
search(query, k) ==
    IF ndim(query) # 1 THEN Raised("shape")
    ELSE IF query.shape[1] # dims THEN Raised("dimension")
    ELSE IF ~in_range(query) THEN Raised("bounds")
    ELSE IF k < 1 THEN Raised("k")
    ELSE Found(query, k)

NoOp == [op |-> "none", query |-> NoQuery, k |-> 0, inRange |-> FALSE,
         times |-> 0, error |-> "none", searched |-> <<>>,
         result |-> NoResult]

\* a caller invokes index.search(query, k); calls are sequential
CallSearch ==
    \E query \in Queries, k \in KSet :
        /\ lastOp.op = "none"
        /\ lastOp' = [op |-> "search", query |-> query, k |-> k,
                      inRange |-> FALSE, times |-> 1] @@ search(query, k)
        /\ UNCHANGED <<dims, bounds, embeddings>>
        /\ UNCHANGED <<optimVars, budgetVars, renderVars, embedVars>>

\* the outcome of the times-th in_range(query) call in a row
InRangeCall(query, times) ==
    [op |-> "in_range", query |-> query, k |-> 0,
     inRange |-> broadcastable(query) /\ in_range(query), times |-> times,
     error |-> IF broadcastable(query) THEN "none" ELSE "broadcast",
     searched |-> <<>>, result |-> NoResult]

\* mutant: in_range widens the bounds so that they hold the query
CallInRange_widens ==
    \E query \in {q \in Queries : ndim(q) = 1} :
        /\ lastOp.op = "none"
        /\ lastOp' = InRangeCall(query, 1)
        /\ bounds' = IF Len(query.data) # dims THEN bounds
                     ELSE [i \in 1..dims |->
                            <<Min(bounds[i][1], query.data[i]),
                              bounds[i][2]>>]
        /\ UNCHANGED <<dims, embeddings>>
        /\ UNCHANGED <<optimVars, budgetVars, renderVars, embedVars>>

\* a caller invokes index.in_range(query) on a vector
CallInRange ==
    \E query \in {q \in Queries : ndim(q) = 1} :
        /\ lastOp.op = "none"
        /\ lastOp' = InRangeCall(query, 1)
        /\ UNCHANGED <<dims, bounds, embeddings>>
        /\ UNCHANGED <<optimVars, budgetVars, renderVars, embedVars>>

\* the caller invokes index.in_range again, with the query of its last call
CallInRangeAgain ==
    /\ lastOp.op = "in_range"
    /\ lastOp.times < MaxRepeats
    /\ lastOp' = InRangeCall(lastOp.query, lastOp.times + 1)
    /\ UNCHANGED <<dims, bounds, embeddings>>
    /\ UNCHANGED <<optimVars, budgetVars, renderVars, embedVars>>

\* the caller is done with the outcome of its last call
Return ==
    /\ lastOp.op # "none"
    /\ lastOp' = NoOp
    /\ UNCHANGED <<dims, bounds, embeddings>>
    /\ UNCHANGED <<optimVars, budgetVars, renderVars, embedVars>>

\* per-dimension bounds with lower <= upper, strictly inside Coord
BoundPairs == {<<lo, MaxCoord - 1>> : lo \in 1..(MaxCoord - 1)}

\* an index as from_embeddings leaves it: rows within the bounds
IndexConfigs ==
    {[dims |-> d, bounds |-> b, embeddings |-> e] :
        d \in 1..MaxDims, b \in [1..MaxDims -> BoundPairs],
        e \in {<<1>>, <<1, 2>>, <<2, 1>>, <<2, 2>>}}

InitIndexOf(cfg) ==
    LET b == [i \in 1..cfg.dims |-> cfg.bounds[i]]
        corner(c) == [i \in 1..cfg.dims |-> b[i][c]]
    IN  /\ dims = cfg.dims
        /\ bounds = b
        /\ embeddings = [r \in 1..Len(cfg.embeddings) |->
                            corner(cfg.embeddings[r])]
        /\ lastOp = NoOp

----------------------------------------------------------------------------
(* Properties of the bounded index, under SpecIndex *)

Searched == lastOp.op = "search"

\* the last query is a vector of the index's dimension
IsVector == Len(lastOp.query.shape) = 1 /\ Len(lastOp.query.data) = dims

\* every coordinate of the last query lies within its bounds, ends included
Inside ==
    \A i \in 1..dims :
        /\ bounds[i][1] <= lastOp.query.data[i]
        /\ lastOp.query.data[i] <= bounds[i][2]

\* the checks the last search arguments violate, by position in the order
\* shape (1), dimension (2), bounds (3), k (4)
Violated ==
    {c \in 1..4 :
        \/ c = 1 /\ Len(lastOp.query.shape) # 1
        \/ c = 2 /\ Len(lastOp.query.data) # dims
        \/ c = 3 /\ \E i \in 1..Min(dims, Len(lastOp.query.data)) :
                        \/ lastOp.query.data[i] < bounds[i][1]
                        \/ lastOp.query.data[i] > bounds[i][2]
        \/ c = 4 /\ lastOp.k < 1}

CheckError == <<"shape", "dimension", "bounds", "k">>

\* C1: search reports the error of the first violated check in the order
\* shape, dimension, bounds, k, also when several checks are violated at once
C1_FirstViolatedCheck ==
    Searched /\ Violated # {} =>
        \E c \in Violated :
            /\ \A d \in Violated : c <= d
            /\ lastOp.error = CheckError[c]

\* a vector of the right length that is out of bounds, searched with k < 1,
\* got the out-of-bounds error
C1_Witness ==
    /\ Searched /\ IsVector /\ ~Inside /\ lastOp.k < 1
    /\ lastOp.error = "bounds"

\* C2 as stated: every search with k < 1 fails with the k error, whatever the
\* query, and _search is not invoked
C2_Original ==
    Searched /\ lastOp.k < 1 =>
        lastOp.error = "k" /\ lastOp.searched = <<>>

\* C2 as amended: every search with k < 1 fails without invoking _search; the
\* error is the k error exactly when the query passes the shape, dimension and
\* bounds checks, and the error of the first of those it violates otherwise
C2_KBelowOneFails ==
    Searched /\ lastOp.k < 1 =>
        /\ lastOp.error # "none"
        /\ lastOp.searched = <<>>
        /\ lastOp.error = "k" <=> (IsVector /\ Inside)
        /\ \A c \in Violated : (\A d \in Violated : c <= d)
                                    => lastOp.error = CheckError[c]

\* a valid query searched with k < 1 got the k error
C2_Witness ==
    /\ Searched /\ lastOp.k < 1 /\ IsVector /\ Inside
    /\ lastOp.error = "k" /\ lastOp.searched = <<>>

\* C3: a vector of length dims with a coordinate outside its bounds makes
\* search fail with the out-of-bounds error, for every k, and _search is not
\* invoked
C3_OutOfBoundsFails ==
    Searched /\ IsVector /\ ~Inside =>
        lastOp.error = "bounds" /\ lastOp.searched = <<>>

\* a query above its upper bound only, searched with k >= 1, was rejected
C3_Witness ==
    /\ Searched /\ IsVector /\ lastOp.k >= 1
    /\ \A i \in 1..dims : lastOp.query.data[i] >= bounds[i][1]
    /\ \E i \in 1..dims : lastOp.query.data[i] > bounds[i][2]
    /\ lastOp.error = "bounds"

\* C4: in_range is inclusive on both ends (true exactly when every coordinate
\* is between its lower and upper bound), and a search with k >= 1 of a query
\* within the bounds, ends included, succeeds
C4_InclusiveBounds ==
    /\ lastOp.op = "in_range" /\ IsVector =>
            lastOp.error = "none" /\ (lastOp.inRange <=> Inside)
    /\ Searched /\ IsVector /\ Inside /\ lastOp.k >= 1 =>
            lastOp.error = "none"

\* a search with the query on the upper bound in every coordinate succeeded
C4_Witness ==
    /\ Searched /\ lastOp.k >= 1 /\ dims = MaxDims
    /\ lastOp.query = Vector(upper)
    /\ lastOp.error = "none"

\* C5: search invokes _search exactly when the four checks pass, then exactly
\* once and with the query and the k it was given
C5_SearchGuarded ==
    Searched =>
        IF IsVector /\ Inside /\ lastOp.k >= 1
        THEN lastOp.searched = <<[query |-> lastOp.query, k |-> lastOp.k]>>
        ELSE lastOp.searched = <<>>

\* a valid search with k > 1 reached _search once, with that query and k
C5_Witness ==
    /\ Searched /\ IsVector /\ Inside /\ lastOp.k > 1
    /\ Len(lastOp.searched) = 1
    /\ lastOp.searched[1].k = lastOp.k

RECURSIVE SquaresUpTo(_, _)
\* the sum over the first j coordinates of the squared differences between
\* the last query and row r of the matrix
SquaresUpTo(r, j) ==
    IF j = 0 THEN 0
    ELSE SquaresUpTo(r, j - 1)
         + (lastOp.query.data[j] - embeddings[r][j])
           * (lastOp.query.data[j] - embeddings[r][j])

\* the squared Euclidean distance of the last query to row r of the matrix
Metric(r) == SquaresUpTo(r, dims)

Succeeded == Searched /\ lastOp.error = "none"

\* C14: a successful search with k <= number of rows returns exactly k
\* results, the k nearest rows, their distances those of the metric over the
\* matrix, in ascending order, ties broken by ascending row index
C14_NearestK ==
    Succeeded /\ lastOp.k <= Len(embeddings) =>
        LET indices == lastOp.result.indices
            distances == lastOp.result.distances
        IN  /\ Len(indices) = lastOp.k
            /\ Len(distances) = lastOp.k
            /\ \A p \in 1..Len(indices) :
                    /\ indices[p] \in 1..Len(embeddings)
                    /\ distances[p] = Metric(indices[p])
            /\ \A p \in 1..(Len(indices) - 1) :
                    \/ distances[p] < distances[p + 1]
                    \/ /\ distances[p] = distances[p + 1]
                       /\ indices[p] < indices[p + 1]
            /\ \A r \in 1..Len(embeddings) :
                    (\A p \in 1..Len(indices) : indices[p] # r) =>
                        \/ Metric(r) > distances[Len(distances)]
                        \/ /\ Metric(r) = distances[Len(distances)]
                           /\ r > indices[Len(indices)]

\* a search for 2 neighbours returned the second row before the first
C14_Witness ==
    /\ Succeeded /\ lastOp.k = 2
    /\ lastOp.result.indices = <<2, 1>>
    /\ lastOp.result.distances[1] < lastOp.result.distances[2]

\* a search for 1 neighbour among two equal rows returned the first
C14_WitnessTie ==
    /\ Succeeded /\ lastOp.k = 1 /\ Len(embeddings) = 2
    /\ embeddings[1] = embeddings[2]
    /\ lastOp.result.indices = <<1>>

\* C16: a successful search returns the input query, the indices and the
\* distances of _search, and as vectors the rows of the embedding matrix at
\* those indices, in that order
C16_ResultGathered ==
    Succeeded =>
        /\ lastOp.result.query = lastOp.query
        /\ lastOp.result.indices = _search(lastOp.query, lastOp.k).indices
        /\ lastOp.result.distances =
                _search(lastOp.query, lastOp.k).distances
        /\ Len(lastOp.result.vectors) = Len(lastOp.result.indices)
        /\ \A j \in 1..Len(lastOp.result.indices) :
                lastOp.result.vectors[j] =
                    embeddings[lastOp.result.indices[j]]

\* a search returned the rows 2 and 1, different rows, in that order
C16_Witness ==
    /\ Succeeded /\ lastOp.result.indices = <<2, 1>>
    /\ embeddings[1] # embeddings[2]
    /\ lastOp.result.vectors = <<embeddings[2], embeddings[1]>>

\* C17: repeated in_range calls with one query give the same answer, and no
\* in_range or search call, failed or not, changes the index's dims, bounds
\* or embeddings
C17_IndexUnchanged ==
    /\ [][dims' = dims /\ bounds' = bounds /\ embeddings' = embeddings]_vars
    /\ [][lastOp.op = "in_range" /\ lastOp'.op = "in_range" =>
            /\ lastOp'.query = lastOp.query
            /\ lastOp'.inRange = lastOp.inRange
            /\ lastOp'.error = lastOp.error]_vars

\* in_range has been called MaxRepeats times in a row on a query out of range
C17_Witness ==
    /\ lastOp.op = "in_range" /\ lastOp.times = MaxRepeats
    /\ Len(lastOp.query.data) = dims
    /\ ~lastOp.inRange /\ lastOp.error = "none"

----------------------------------------------------------------------------
(* The trial budget: src/bocoel/core/optim/ax/optim.py, _terminate_step *)

TrialCounts == -1..MaxTrials

RECURSIVE sum(_)
sum(ts) ==
    IF ts = <<>> THEN 0 ELSE ts[1] + sum(Tail(ts))

\* mutant: the sum, whatever the signs
_terminate_step_sum(trials) == sum(trials)

\* mutant: the number of steps instead of the sum of their trials
_terminate_step_len(trials) ==
    IF \A i \in 1..Len(trials) : trials[i] >= 0 THEN Len(trials) ELSE -1

\* mutant: only the last step can make the budget unbounded
_terminate_step_last(trials) ==
    IF trials = <<>> \/ trials[Len(trials)] >= 0
    THEN sum(SelectSeq(trials, LAMBDA t : t >= 0))
    ELSE -1

\* AxServiceOptimizer._terminate_step, on the steps' num_trials
_terminate_step(trials) ==
    IF \A i \in 1..Len(trials) : trials[i] >= 0 THEN sum(trials) ELSE -1

\* a stand-alone call _terminate_step(steps)
CallTerminateStep ==
    /\ bresult = <<>>
    /\ bresult' = <<_terminate_step(bsteps)>>
    /\ UNCHANGED bsteps
    /\ UNCHANGED <<indexVars, optimVars, renderVars, embedVars>>

----------------------------------------------------------------------------
(* The remaining-steps counter (bocoel.core.optim.utils.RemainingSteps) *)

\* RemainingSteps.done
RemainingSteps_done(count) == count = 0

\* RemainingSteps.step raises when the counter is already done
RemainingSteps_raises(count) == RemainingSteps_done(count)

\* RemainingSteps.step, when it does not raise: the new count
RemainingSteps_step(count) == IF count = -1 THEN count ELSE count - 1

----------------------------------------------------------------------------
(* The optimizer loop: src/bocoel/core/optim/ax/optim.py *)

\* mutant: any count that is not positive terminates
terminate_nonpositive == remaining <= 0

\* AxServiceOptimizer.terminate
terminate == RemainingSteps_done(remaining)

Ev(ev, trial, query, value) ==
    [ev |-> ev, trial |-> trial, query |-> query, value |-> value]

\* AxClient.get_next_trial: a new running trial, its index the handle
get_next_trial(ledger) ==
    Append(ledger, [status |-> "RUNNING", value |-> 0, reports |-> 0])

\* mutant: the score is reported for every trial of the ledger
complete_trial_every(ledger, trial_index, value) ==
    [t \in 1..Len(ledger) |->
        [status |-> "COMPLETED", value |-> value,
         reports |-> ledger[t].reports + 1]]

\* AxClient.complete_trial(trial_index, raw_data)
complete_trial(ledger, trial_index, value) ==
    [ledger EXCEPT ![trial_index] =
        [status |-> "COMPLETED", value |-> value, reports |-> @.reports + 1]]

\* types.parameter_name_list(dims): the parameter names in declared order
parameter_name_list(d) == [i \in 1..d |-> i]

\* optim_utils.evaluate_index: search with the default k, then score.
\* score is what evaluate_fn does on the result: [raises, value]
evaluate_index(query, score) ==
    LET found == search(query, 1)
    IN  IF found.error # "none"
        THEN [error |-> "search", query |-> query, result |-> NoResult,
              evaluation |-> 0]
        ELSE IF score.raises
        THEN [error |-> "score", query |-> query, result |-> found.result,
              evaluation |-> 0]
        ELSE [error |-> "none", query |-> query, result |-> found.result,
              evaluation |-> score.value]

\* AxServiceOptimizer._evaluate
_evaluate(parameters, score) ==
    LET names == parameter_name_list(dims)
        query == Vector([i \in 1..dims |-> parameters[names[i]]])
    IN  evaluate_index(query, score)

\* what the external strategy may answer to get_next_trial: it raises, or it
\* proposes a point (the corners of the bounds, and a point below them)
Proposals ==
    {[raises |-> TRUE, parameters |-> lower]}
    \cup {[raises |-> FALSE, parameters |-> p] :
            p \in {lower, upper, [i \in 1..dims |-> 0]}}

\* what the scoring function may do
Scores ==
    {[raises |-> TRUE, value |-> 0]}
    \cup {[raises |-> FALSE, value |-> v] : v \in ScoreVals}

\* mutant: the score is never reported back to the strategy
step_trial_unreported(ledger, proposal, score) ==
    LET trial_index == Len(ledger) + 1
        proposed == get_next_trial(ledger)
        state == _evaluate(proposal.parameters, score)
        head == <<Ev("propose", trial_index, NoQuery, 0),
                  Ev("query", 0, state.query, 0),
                  Ev("search", 0, state.query, 1)>>
    IN  IF proposal.raises
        THEN [outcome |-> "propose_failed", trials |-> ledger, log |-> <<>>]
        ELSE IF state.error = "search"
        THEN [outcome |-> "search_failed", trials |-> proposed, log |-> head]
        ELSE IF state.error = "score"
        THEN [outcome |-> "score_failed", trials |-> proposed,
              log |-> Append(head, Ev("score", 0, NoQuery, 0))]
        ELSE [outcome |-> "ok", trials |-> proposed,
              log |-> Append(head,
                             Ev("score", 0, NoQuery, state.evaluation))]

\* mutant: a failed scoring is caught and reported as a score of 0
step_trial_reports_failure(ledger, proposal, score) ==
    LET trial_index == Len(ledger) + 1
        proposed == get_next_trial(ledger)
        state == _evaluate(proposal.parameters, score)
        head == <<Ev("propose", trial_index, NoQuery, 0),
                  Ev("query", 0, state.query, 0),
                  Ev("search", 0, state.query, 1)>>
    IN  IF proposal.raises
        THEN [outcome |-> "propose_failed", trials |-> ledger, log |-> <<>>]
        ELSE IF state.error = "search"
        THEN [outcome |-> "search_failed", trials |-> proposed, log |-> head]
        ELSE IF state.error = "score"
        THEN [outcome |-> "score_failed",
              trials |-> complete_trial(proposed, trial_index, 0),
              log |-> Append(head, Ev("score", 0, NoQuery, 0))]
        ELSE [outcome |-> "ok",
              trials |-> complete_trial(proposed, trial_index,
                                        state.evaluation),
              log |-> head \o
                  <<Ev("score", 0, NoQuery, state.evaluation),
                    Ev("complete", trial_index, NoQuery, state.evaluation)>>]

\* step() after the counter update (lines 56-61): the outcome, the ledger and
\* the events, in order
step_trial(ledger, proposal, score) ==
    LET trial_index == Len(ledger) + 1
        proposed == get_next_trial(ledger)
        state == _evaluate(proposal.parameters, score)
        head == <<Ev("propose", trial_index, NoQuery, 0),
                  Ev("query", 0, state.query, 0),
                  Ev("search", 0, state.query, 1)>>
    IN  IF proposal.raises
        THEN [outcome |-> "propose_failed", trials |-> ledger, log |-> <<>>]
        ELSE IF state.error = "search"
        THEN [outcome |-> "search_failed", trials |-> proposed, log |-> head]
        ELSE IF state.error = "score"
        THEN [outcome |-> "score_failed", trials |-> proposed,
              log |-> Append(head, Ev("score", 0, NoQuery, 0))]
        ELSE [outcome |-> "ok",
              trials |-> complete_trial(proposed, trial_index,
                                        state.evaluation),
              log |-> head \o
                  <<Ev("score", 0, NoQuery, state.evaluation),
                    Ev("complete", trial_index, NoQuery, state.evaluation)>>]

\* mutant: the strategy is asked for a trial before the counter is stepped
step_proposes_first ==
    /\ calls < MaxCalls
    /\ calls' = calls + 1
    /\ \/ /\ RemainingSteps_raises(remaining)
          /\ axTrials' = get_next_trial(axTrials)
          /\ asked' = asked + 1
          /\ lastStep' = [outcome |-> "terminated",
                          log |-> <<Ev("propose", Len(axTrials) + 1,
                                       NoQuery, 0)>>]
          /\ failed' = TRUE
          /\ UNCHANGED remaining
       \/ /\ ~RemainingSteps_raises(remaining)
          /\ asked' = asked + 1
          /\ \E run \in {step_trial(axTrials, proposal, score) :
                            proposal \in Proposals, score \in Scores} :
                /\ axTrials' = run.trials
                /\ lastStep' =
                     [outcome |-> run.outcome,
                      log |-> <<Ev("counter", 0, NoQuery, 0)>> \o run.log]
                /\ failed' = (failed \/ run.outcome # "ok")
                /\ remaining' = RemainingSteps_step(remaining)
    /\ UNCHANGED steps
    /\ UNCHANGED <<indexVars, budgetVars, renderVars, embedVars>>

\* mutant: a step that fails gives its unit of the budget back
step_restores_counter ==
    /\ calls < MaxCalls
    /\ calls' = calls + 1
    /\ \/ /\ RemainingSteps_raises(remaining)
          /\ lastStep' = [outcome |-> "terminated", log |-> <<>>]
          /\ failed' = TRUE
          /\ UNCHANGED <<remaining, axTrials, asked>>
       \/ /\ ~RemainingSteps_raises(remaining)
          /\ asked' = asked + 1
          /\ \E run \in {step_trial(axTrials, proposal, score) :
                            proposal \in Proposals, score \in Scores} :
                /\ axTrials' = run.trials
                /\ lastStep' =
                     [outcome |-> run.outcome,
                      log |-> <<Ev("counter", 0, NoQuery, 0)>> \o run.log]
                /\ failed' = (failed \/ run.outcome # "ok")
                /\ remaining' = IF run.outcome = "ok"
                                 THEN RemainingSteps_step(remaining)
                                 ELSE remaining
    /\ UNCHANGED steps
    /\ UNCHANGED <<indexVars, budgetVars, renderVars, embedVars>>

\* AxServiceOptimizer.step
step ==
    /\ calls < MaxCalls
    /\ calls' = calls + 1
    /\ \/ /\ RemainingSteps_raises(remaining)
          /\ lastStep' = [outcome |-> "terminated", log |-> <<>>]
          /\ failed' = TRUE
          /\ UNCHANGED <<remaining, axTrials, asked>>
       \/ /\ ~RemainingSteps_raises(remaining)
          /\ asked' = asked + 1
          /\ \E run \in {step_trial(axTrials, proposal, score) :
                            proposal \in Proposals, score \in Scores} :
                /\ axTrials' = run.trials
                /\ lastStep' =
                     [outcome |-> run.outcome,
                      log |-> <<Ev("counter", 0, NoQuery, 0)>> \o run.log]
                /\ failed' = (failed \/ run.outcome # "ok")
                /\ remaining' = RemainingSteps_step(remaining)
    /\ UNCHANGED steps
    /\ UNCHANGED <<indexVars, budgetVars, renderVars, embedVars>>

NoStep == [outcome |-> "none", log |-> <<>>]

----------------------------------------------------------------------------
(* Properties of the counter and of the optimizer loop, under SpecOptim *)

\* the count the counter was constructed with (line 43)
Budget == _terminate_step(steps)

AllNonNegative == \A i \in 1..Len(steps) : steps[i] >= 0

\* C6: a counter constructed with N >= 0 is done after N step() calls and not
\* before, one constructed with -1 is never done, and the optimizer's
\* terminate is the counter's done
C6_DoneAfterBudget ==
    /\ Budget >= 0 => (terminate <=> calls >= Budget)
    /\ Budget = -1 => ~terminate
    /\ terminate <=> remaining = 0

\* a counter constructed with 2 is done after its second step
C6_Witness == Budget = 2 /\ calls = 2 /\ terminate

\* an unbounded counter has been stepped MaxCalls times and is not done
C6_WitnessUnbounded == Budget = -1 /\ calls = MaxCalls /\ ~terminate

\* C7: the count is the sentinel -1 or within 0..N, N its initial value; a
\* step decrements a positive count by one, leaves -1 alone, and at 0 fails
\* and leaves the count at 0
C7_CounterRange ==
    /\ [](remaining = -1 \/ remaining \in 0..Budget)
    /\ [][calls' # calls =>
            /\ remaining > 0 => remaining' = remaining - 1
            /\ remaining = -1 => remaining' = -1
            /\ remaining = 0 =>
                    remaining' = 0 /\ lastStep'.outcome = "terminated"
            /\ remaining >= 0 => remaining' >= 0]_vars

\* a finite counter was counted down to 0 and a further step has failed
C7_Witness ==
    /\ Budget > 0 /\ remaining = 0 /\ calls = Budget + 1
    /\ lastStep.outcome = "terminated"

\* C8: with a schedule of non-negative trial counts of sum N, terminate is
\* false before the N-th step() call and true from it on, the first N calls
\* pass the counter and every later call fails there
C8_LoopStopsAtBudget ==
    AllNonNegative =>
        /\ calls < sum(steps) => ~terminate
        /\ calls >= sum(steps) => terminate
        /\ calls > sum(steps) => lastStep.outcome = "terminated"
        /\ 0 < calls /\ calls <= sum(steps) =>
                lastStep.outcome # "terminated"

\* a two-step schedule of 3 trials: the 4th step() call has failed
C8_Witness ==
    /\ Len(steps) = 2 /\ sum(steps) = 3 /\ calls = 4
    /\ terminate /\ lastStep.outcome = "terminated"

\* an empty schedule: the first step() call has failed
C8_WitnessEmpty ==
    steps = <<>> /\ calls = 1 /\ lastStep.outcome = "terminated"

StepOrder == <<"counter", "propose", "query", "search", "score", "complete">>

\* C10: the events of a step() call follow the order counter, proposal,
\* query, search, scoring, completion; a step that returns has proposed one
\* trial and completed that trial once, with the score of that step's search;
\* while no step has failed, no trial is outstanding between calls
C10_StepOrder ==
    /\ Len(lastStep.log) <= Len(StepOrder)
    /\ \A i \in 1..Len(lastStep.log) : lastStep.log[i].ev = StepOrder[i]
    /\ lastStep.outcome = "ok" =>
        /\ Len(lastStep.log) = Len(StepOrder)
        /\ lastStep.log[2].trial = Len(axTrials)
        /\ lastStep.log[6].trial = lastStep.log[2].trial
        /\ lastStep.log[4].query = lastStep.log[3].query
        /\ search(lastStep.log[4].query, lastStep.log[4].value).error = "none"
        /\ lastStep.log[6].value = lastStep.log[5].value
        /\ axTrials[Len(axTrials)] =
                [status |-> "COMPLETED", value |-> lastStep.log[5].value,
                 reports |-> 1]
    /\ ~failed =>
        /\ Len(axTrials) = calls
        /\ \A t \in 1..Len(axTrials) :
                axTrials[t].status = "COMPLETED" /\ axTrials[t].reports = 1

\* two steps have returned, with different scores, and nothing has failed
C10_Witness ==
    /\ ~failed /\ calls = 2 /\ lastStep.outcome = "ok"
    /\ axTrials[1].value # axTrials[2].value

\* C11: when the scoring function raises, the step raises, the trial it
\* proposed is left running, and no later step completes it: a running trial
\* stays in the ledger as it is
C11_LostTrialStaysLost ==
    /\ [](lastStep.outcome = "score_failed" =>
            /\ failed
            /\ axTrials[Len(axTrials)].status = "RUNNING"
            /\ axTrials[Len(axTrials)].reports = 0)
    /\ [][\A t \in 1..Len(axTrials) :
            axTrials[t].status = "RUNNING" =>
                t <= Len(axTrials') /\ axTrials'[t] = axTrials[t]]_vars

\* the first trial is still running after a later step has completed its own
\* trial, and the third step has failed in the scoring function
C11_Witness ==
    /\ calls = 3 /\ Len(axTrials) = 3
    /\ axTrials[1].status = "RUNNING"
    /\ axTrials[2].status = "COMPLETED"
    /\ lastStep.outcome = "score_failed"

Completed == Cardinality({t \in 1..Len(axTrials) :
                                axTrials[t].status = "COMPLETED"})

StepOutcomes == {"ok", "propose_failed", "search_failed", "score_failed"}

\* C15: a step() call made while terminated fails before anything else
\* happens: no proposal, search, scoring or completion, and the counter, the
\* ledger and the index are the same after the call as before it
C15_TerminatedStepDoesNothing ==
    [][calls' # calls /\ terminate =>
        /\ lastStep'.outcome = "terminated" /\ lastStep'.log = <<>>
        /\ failed'
        /\ remaining' = remaining
        /\ axTrials' = axTrials /\ asked' = asked
        /\ UNCHANGED indexVars]_vars

\* a step() call has failed on a terminated optimizer whose ledger holds a
\* completed trial and a trial left running
C15_Witness ==
    /\ lastStep.outcome = "terminated" /\ calls = Budget + 1
    /\ Len(axTrials) = 2
    /\ axTrials[1].status = "COMPLETED" /\ axTrials[2].status = "RUNNING"

\* C18: a step() call that starts while not terminated takes one unit of a
\* finite budget, whether it returns or fails in the proposal, the search or
\* the scoring; after N calls terminate holds, and no more trials are
\* completed than units were taken
C18_FailedStepConsumesBudget ==
    /\ [][calls' # calls /\ ~terminate /\ Budget >= 0 =>
            /\ lastStep'.outcome \in StepOutcomes
            /\ remaining' = remaining - 1]_vars
    /\ [](Budget >= 0 /\ calls >= Budget => terminate)
    /\ [](Budget >= 0 => Completed <= Budget - remaining)

\* a budget of 3 is used up by a failed proposal, a failed evaluation and a
\* step that returned: one trial is completed at termination
C18_Witness ==
    /\ Budget = 3 /\ calls = 3 /\ terminate /\ failed
    /\ Len(axTrials) = 2 /\ Completed = 1

\* C19 as stated: the trials the strategy has proposed are as many as the
\* units taken from a finite budget
C19_Original ==
    Budget >= 0 =>
        /\ Len(axTrials) = Budget - remaining
        /\ Len(axTrials) <= Budget
        /\ Completed <= Len(axTrials)
        /\ \A t \in 1..Len(axTrials) : axTrials[t].reports <= 1

\* C19: for a finite budget N the strategy has been asked N - remaining
\* times, never more than N; it has proposed at most that many trials, and
\* as many when no step has failed; completed trials are proposed trials, each
\* completed once, and a trial is completed in the step that proposed it
C19_BudgetAccounting ==
    /\ [](Budget >= 0 =>
            /\ asked = Budget - remaining /\ asked <= Budget
            /\ Len(axTrials) <= asked
            /\ ~failed => Len(axTrials) = asked
            /\ Completed <= Len(axTrials)
            /\ \A t \in 1..Len(axTrials) :
                    /\ axTrials[t].reports <= 1
                    /\ axTrials[t].status = "COMPLETED" <=>
                            axTrials[t].reports = 1)
    /\ [][/\ Len(axTrials') \in {Len(axTrials), Len(axTrials) + 1}
          /\ \A t \in 1..Len(axTrials) : axTrials'[t] = axTrials[t]]_vars

\* the strategy was asked twice under a budget of 2 and raised once: one
\* trial is proposed and completed, and the budget is used up
C19_Witness ==
    /\ Budget = 2 /\ remaining = 0 /\ asked = 2
    /\ Len(axTrials) = 1 /\ Completed = 1

----------------------------------------------------------------------------
(* Properties of the trial budget, under SpecBudget *)

\* C9: the budget is the sum of the steps' num_trials when none is negative,
\* and -1 as soon as one is, at whatever position
C9_BudgetSumOrUnbounded ==
    /\ bresult # <<>> =>
            bresult[1] = IF \E i \in 1..Len(bsteps) : bsteps[i] < 0
                         THEN -1 ELSE sum(bsteps)
    /\ _terminate_step(<<5, 10, 15>>) = 30
    /\ _terminate_step(<<5, 10, -1>>) = -1
    /\ _terminate_step(<<-1, 5, 10>>) = -1
    /\ _terminate_step(<<5, -1, 10>>) = -1

\* a schedule whose middle step alone is unbounded got the budget -1
C9_Witness ==
    /\ Len(bsteps) = 3 /\ bsteps[1] > 0 /\ bsteps[2] < 0 /\ bsteps[3] > 0
    /\ bresult = <<-1>>

\* a schedule of three bounded steps got their sum
C9_WitnessSum ==
    bsteps = <<1, 2, 2>> /\ bresult = <<5>>

----------------------------------------------------------------------------
(* Rendering: src/bocoel/core/optim/ax/optim.py, render *)

\* the names callers pass as kind
RenderKinds ==
    {"interactive", "static", "tradeoff", "cross_validate", "cv", "slice",
     "tile", "", "Static", "contour", "cross-validate", "tiles", "scatter"}

RenderArgs == {"param_x", "param_y", "param_name"}

\* the keyword parameters of the rendering routines (lines 135-171)
RenderParams(routine) ==
    CASE routine = "_render_static" -> {"param_x", "param_y"}
      [] routine = "_render_slice" -> {"param_name"}
      [] OTHER -> {}

\* the routines that read _gen_strat_model, which asserts a fitted model
NeedsModel(routine) == routine # "_render_static"

\* func(**kwargs), lines 86 and 129-171
Rendering(routine, kwargs) ==
    [routine |-> routine,
     error |-> IF kwargs # RenderParams(routine) THEN "type"
               ELSE IF NeedsModel(routine) /\ ~fitted THEN "assertion"
               ELSE "none"]

\* mutant: the tile case is missing
render_without_tile(kind, kwargs) ==
    CASE kind = "interactive" -> Rendering("_render_interactive", kwargs)
      [] kind = "static" -> Rendering("_render_static", kwargs)
      [] kind = "tradeoff" -> Rendering("_render_tradeoff", kwargs)
      [] kind \in {"cross_validate", "cv"} ->
            Rendering("_render_cross_validate", kwargs)
      [] kind = "slice" -> Rendering("_render_slice", kwargs)
      [] OTHER -> [routine |-> "none", error |-> "not supported"]

\* AxServiceOptimizer.render: the routine dispatched to and the error raised
render(kind, kwargs) ==
    CASE kind = "interactive" -> Rendering("_render_interactive", kwargs)
      [] kind = "static" -> Rendering("_render_static", kwargs)
      [] kind = "tradeoff" -> Rendering("_render_tradeoff", kwargs)
      [] kind \in {"cross_validate", "cv"} ->
            Rendering("_render_cross_validate", kwargs)
      [] kind = "slice" -> Rendering("_render_slice", kwargs)
      [] kind = "tile" -> Rendering("_render_tile", kwargs)
      [] OTHER -> [routine |-> "none", error |-> "not supported"]

NoRender == [op |-> "none", kind |-> "", kwargs |-> {}, routine |-> "none",
             error |-> "none"]

\* a caller invokes optimizer.render(kind, **kwargs)
CallRender ==
    \E kind \in RenderKinds, kwargs \in SUBSET RenderArgs :
        /\ rendered' = [op |-> "render", kind |-> kind, kwargs |-> kwargs]
                        @@ render(kind, kwargs)
        /\ UNCHANGED fitted
        /\ UNCHANGED <<indexVars, optimVars, budgetVars, embedVars>>

\* C12 as stated: render dispatches to a routine exactly for the six names
\* interactive, static, tradeoff, cross_validate, slice and tile
C12_Original ==
    rendered.op = "render" =>
        (rendered.routine # "none" <=>
            rendered.kind \in {"interactive", "static", "tradeoff",
                               "cross_validate", "slice", "tile"})

\* C12 as amended: render dispatches to the routine of the name for the six
\* names and for "cv", an alias of cross_validate, and for every other name
\* it fails with the unsupported-kind error and calls no routine
C12_RenderDispatch ==
    rendered.op = "render" =>
        LET name == IF rendered.kind = "cv" THEN "cross_validate"
                    ELSE rendered.kind
        IN  IF name \in {"interactive", "static", "tradeoff",
                         "cross_validate", "slice", "tile"}
            THEN /\ rendered.routine # "none"
                 /\ rendered.routine = "_render_" \o name
                 /\ rendered.error # "not supported"
            ELSE /\ rendered.routine = "none"
                 /\ rendered.error = "not supported"

\* a tile rendering went through, and so did one asked for as "cv"
C12_Witness ==
    /\ rendered.kind = "tile" /\ rendered.routine = "_render_tile"
    /\ rendered.error = "none"

C12_WitnessAlias ==
    /\ rendered.kind = "cv" /\ rendered.routine = "_render_cross_validate"
    /\ rendered.error = "none"

----------------------------------------------------------------------------
(* The embedder: src/bocoel/corpora/embedders/interfaces.py *)

\* HuggingfaceEmbedder.dims
EmbedDims == 2

\* the texts the items of a storage hold
ItemTexts == {1, 2}

\* the widths (last dimension) an _encode call may return
Widths == {EmbedDims, EmbedDims + 1}

\* the caller's transform: the text of each item of the batch
transform(items) == [i \in 1..Len(items) |-> <<"text", items[i]>>]

\* Embedder._encode returning rows of the given width, one per text
_encode(texts, width) ==
    [i \in 1..Len(texts) |-> [j \in 1..width |-> texts[i][2] * j]]

\* mutant: the dimension of the encoding is not checked
encode_unchecked(texts, width) ==
    [error |-> "none", rows |-> _encode(texts, width)]

\* Embedder.encode, when _encode answers with rows of the given width
encode(texts, width) ==
    LET result == _encode(texts, width)
    IN  IF width # EmbedDims
        THEN [error |-> "dimension", rows |-> <<>>]
        ELSE [error |-> "none", rows |-> result]

RECURSIVE concatenate(_)
\* np.concatenate(results, axis=0) of a non-empty list
concatenate(results) ==
    IF Len(results) = 1 THEN results[1]
    ELSE results[1] \o concatenate(Tail(results))

NoEncoding == [op |-> "none", widths |-> <<>>, transformed |-> <<>>,
               encodes |-> <<>>, error |-> "none", result |-> <<>>]

RECURSIVE encode_loop(_, _, _)
\* the loop of encode_storage from offset idx on (lines 29-41); widths[c] is
\* the width the c-th _encode call answers with; done holds the batches
\* given to transform, the texts given to encode, and the results list
encode_loop(idx, widths, done) ==
    IF idx >= Len(storage) THEN done
    ELSE LET items == SubSeq(storage, idx + 1,
                             Min(idx + batch, Len(storage)))
             texts == transform(items)
             call == encode(texts, widths[Len(done.encodes) + 1])
             seen == [done EXCEPT !.transformed = Append(@, items),
                                  !.encodes = Append(@, texts)]
         IN  IF call.error # "none"
             THEN [seen EXCEPT !.error = call.error]
             ELSE encode_loop(idx + batch, widths,
                              [seen EXCEPT !.result = Append(@, call.rows)])

\* Embedder.encode_storage: the calls it makes and its outcome; an error in a
\* batch leaves the call without a result, and np.concatenate raises on an
\* empty results list
encode_storage(widths) ==
    LET looped == encode_loop(0, widths, [NoEncoding EXCEPT !.widths = widths])
    IN  IF looped.error # "none" THEN [looped EXCEPT !.result = <<>>]
        ELSE IF looped.result = <<>>
        THEN [looped EXCEPT !.error = "concatenate"]
        ELSE [looped EXCEPT !.result = concatenate(looped.result)]

\* the number of batches of the storage
NumBatches == (Len(storage) + batch - 1) \div batch

\* a caller invokes embedder.encode_storage(storage, transform)
CallEncodeStorage ==
    \E widths \in [1..NumBatches -> Widths] :
        /\ encoded' = [encode_storage(widths) EXCEPT !.op = "encode_storage"]
        /\ UNCHANGED <<storage, batch>>
        /\ UNCHANGED <<indexVars, optimVars, budgetVars, renderVars>>

----------------------------------------------------------------------------
(* Properties of the embedder, under SpecEmbed *)

Encoded == encoded.op = "encode_storage"

\* the batches of the storage: consecutive slices of at most batch items
Slice(c) ==
    SubSeq(storage, (c - 1) * batch + 1, Min(c * batch, Len(storage)))

\* the _encode calls that answered with a wrong dimension
BadCalls == {c \in 1..Len(encoded.widths) : encoded.widths[c] # EmbedDims}

\* C13 as stated: for a storage of n >= 0 items, n = 0 included, and every
\* batch encoded in the right dimension, encode_storage transforms and encodes
\* the consecutive slices in order and returns n rows, row i the encoding of
\* item i
C13_BatchesInOrder ==
    Encoded /\ BadCalls = {} =>
        /\ encoded.error = "none"
        /\ Len(encoded.transformed) = NumBatches
        /\ \A c \in 1..Len(encoded.transformed) :
                /\ encoded.transformed[c] = Slice(c)
                /\ Len(Slice(c)) \in 1..batch
        /\ encoded.encodes =
                [c \in 1..Len(encoded.transformed) |->
                    [i \in 1..Len(Slice(c)) |-> <<"text", Slice(c)[i]>>]]
        /\ Len(encoded.result) = Len(storage)
        /\ \A i \in 1..Len(encoded.result) :
                encoded.result[i] =
                    [j \in 1..EmbedDims |-> storage[i] * j]

\* the same for a storage that is not empty, which is what the code does
C13_NonEmptyStorage == storage # <<>> => C13_BatchesInOrder

\* C20: encode_storage returns only rows of dimension dims; the first batch
\* whose encoding has another dimension ends the call with the dimension
\* error: no later batch is transformed or encoded and nothing is returned
C20_DimensionChecked ==
    Encoded =>
        /\ \A i \in 1..Len(encoded.result) :
                Len(encoded.result[i]) = EmbedDims
        /\ BadCalls = {} => encoded.error # "dimension"
        /\ \A c \in BadCalls :
                (\A d \in BadCalls : c <= d) =>
                    /\ encoded.error = "dimension"
                    /\ encoded.result = <<>>
                    /\ Len(encoded.transformed) = c
                    /\ Len(encoded.encodes) = c

\* of three batches the second came back in a wrong dimension: the call
\* failed after two batches
C20_Witness ==
    /\ Encoded /\ NumBatches = 3
    /\ encoded.widths[1] = EmbedDims /\ encoded.widths[2] # EmbedDims
    /\ encoded.error = "dimension" /\ Len(encoded.encodes) = 2

----------------------------------------------------------------------------
(* Specifications *)

DefaultConfig ==
    [dims |-> MaxDims, bounds |-> [i \in 1..MaxDims |-> <<1, MaxCoord - 1>>],
     embeddings |-> <<1, 2>>]

IdleOptimizer ==
    /\ steps = <<>>
    /\ remaining = _terminate_step(<<>>)
    /\ axTrials = <<>>
    /\ asked = 0
    /\ calls = 0
    /\ lastStep = NoStep
    /\ failed = FALSE

IdleBudget == bsteps = <<>> /\ bresult = <<>>

IdleRender == fitted = FALSE /\ rendered = NoRender

IdleEmbed == storage = <<>> /\ batch = 1 /\ encoded = NoEncoding

\* an index after from_embeddings, and its callers
InitIndex ==
    /\ \E cfg \in IndexConfigs : InitIndexOf(cfg)
    /\ IdleOptimizer
    /\ IdleBudget
    /\ IdleRender
    /\ IdleEmbed

NextIndex == CallSearch \/ CallInRange \/ CallInRangeAgain \/ Return

SpecIndex == InitIndex /\ [][NextIndex]_vars

\* an optimizer after __init__ (lines 31-46), and its callers
InitOptim ==
    /\ InitIndexOf(DefaultConfig)
    /\ steps \in SeqsUpTo(TrialCounts, MaxSteps)
    /\ remaining = _terminate_step(steps)
    /\ axTrials = <<>>
    /\ asked = 0
    /\ calls = 0
    /\ lastStep = NoStep
    /\ failed = FALSE
    /\ IdleBudget
    /\ IdleRender
    /\ IdleEmbed

NextOptim == step

SpecOptim == InitOptim /\ [][NextOptim]_vars

\* _terminate_step as a function of the schedule
InitBudget ==
    /\ InitIndexOf(DefaultConfig)
    /\ IdleOptimizer
    /\ bsteps \in SeqsUpTo(TrialCounts, MaxSteps + 1)
    /\ bresult = <<>>
    /\ IdleRender
    /\ IdleEmbed

NextBudget == CallTerminateStep

SpecBudget == InitBudget /\ [][NextBudget]_vars

\* an optimizer, with or without a fitted model, and its render() callers
InitRender ==
    /\ InitIndexOf(DefaultConfig)
    /\ IdleOptimizer
    /\ IdleBudget
    /\ fitted \in BOOLEAN
    /\ rendered = NoRender
    /\ IdleEmbed

NextRender == CallRender

SpecRender == InitRender /\ [][NextRender]_vars

\* an embedder with its batch size, a storage, and encode_storage callers
InitEmbed ==
    /\ InitIndexOf(DefaultConfig)
    /\ IdleOptimizer
    /\ IdleBudget
    /\ IdleRender
    /\ storage \in SeqsUpTo(ItemTexts, MaxItems)
    /\ batch \in 1..MaxBatch
    /\ encoded = NoEncoding

NextEmbed == CallEncodeStorage

SpecEmbed == InitEmbed /\ [][NextEmbed]_vars

====
